---- MODULE Spec2Model ----
(***************************************************************************)
(* A model of hiaudio/start-web-server.py: the startup sequence of main(), *)
(* the best-effort probe get_local_ip(), and MyHTTPRequestHandler (the two *)
(* overrides end_headers and do_GET on top of the standard library's       *)
(* SimpleHTTPRequestHandler, whose behaviour is modelled as far as the     *)
(* overrides depend on it).                                                *)
(*                                                                         *)
(* Modelling choices:                                                      *)
(*   - a request path is a sequence of tokens, <<"/", "index.html">> for   *)
(*     "/index.html" and <<"/", "?", "x=1">> for "/?x=1";                  *)
(*   - the script's directory holds regular files only (no sub-directory), *)
(*     each absent or holding one of NumContents contents;                 *)
(*   - KeyboardInterrupt may be raised between any two statements.         *)
(***************************************************************************)
EXTENDS Integers, Sequences, FiniteSets, TLC

\* ------------------------------------------------------------------ bounds
NumContents == 2

\* --------------------------------------------------------------- constants
PORT == 8082

Absent == 0
Contents == 1..NumContents

TargetFile == "web-receiver.html"
Files == {"web-receiver.html", "index.html", "app.js"}

\* The directory the process was started from, when it is not the script's
\* directory: it holds another web-receiver.html and nothing else.
ElsewhereContent == 99
ElsewhereFs == [f \in Files |-> IF f = "web-receiver.html" THEN ElsewhereContent ELSE Absent]

RootPath == <<"/">>
IndexPath == <<"/", "index.html">>
TargetPath == <<"/", "web-receiver.html">>
QueryRootPath == <<"/", "?", "x=1">>
AppPath == <<"/", "app.js">>
Paths == {RootPath, IndexPath, TargetPath, QueryRootPath, AppPath}

Methods == {"GET", "HEAD", "POST"}

\* A request line that does not parse (one word, or a bad version field).
Malformed ==
  [kind |-> "malformed", method |-> "", path |-> <<>>, version |-> "HTTP/0.9",
   ims |-> FALSE]

\* version "HTTP/0.9" is the two-word request line "GET <path>", valid for
\* GET only; ims is an If-Modified-Since header not older than the file.
WellFormed ==
  { r \in [kind : {"request"}, method : Methods, path : Paths,
           version : {"HTTP/1.1", "HTTP/0.9"}, ims : BOOLEAN] :
      /\ r.version = "HTTP/0.9" => (r.method = "GET" /\ ~r.ims)
      /\ r.ims => r.method = "GET" }

Requests == WellFormed \cup {Malformed}

\* ------------------------------------------------------------ get_local_ip
\* How the try block of get_local_ip goes: through, or raising at one of its
\* first three statements.
ProbeOutcomes == {"ok", "socket_fails", "connect_fails", "getsockname_fails"}
LanIp == "192.168.0.7"

\* The probe's fallback names the loopback address instead of "localhost".
get_local_ip_loopback(outcome) ==
  IF outcome = "ok" THEN LanIp ELSE "127.0.0.1"

get_local_ip(outcome) ==
  IF outcome = "ok" THEN LanIp ELSE "localhost"

\* ------------------------------------------------- MyHTTPRequestHandler
CorsHeaders ==
  << <<"Access-Control-Allow-Origin", "*">>,
     <<"Access-Control-Allow-Methods", "GET, POST, OPTIONS">>,
     <<"Access-Control-Allow-Headers", "Content-Type">> >>

\* BaseHTTPRequestHandler.send_header: buffers nothing for HTTP/0.9.
send_header(buf, version, header) ==
  IF version # "HTTP/0.9" THEN Append(buf, header) ELSE buf

\* end_headers with the Access-Control-Allow-Headers line forgotten.
end_headers_two(buf, version) ==
  send_header(send_header(buf, version, CorsHeaders[1]), version, CorsHeaders[2])

\* MyHTTPRequestHandler.end_headers: the three send_header calls, then the
\* base class flushes the buffer.
end_headers(buf, version) ==
  send_header(send_header(send_header(buf, version, CorsHeaders[1]),
                          version, CorsHeaders[2]),
              version, CorsHeaders[3])

\* BaseHTTPRequestHandler.send_response: status line and Server/Date headers,
\* all omitted for HTTP/0.9.
send_response(version) ==
  send_header(send_header(<<>>, version, <<"Server", "SimpleHTTP">>),
              version, <<"Date", "now">>)

\* A response body: nothing, an error page, a file's bytes or a listing.
NoBody == [kind |-> "none", code |-> 0, content |-> Absent, names |-> {}]
ErrorPage(code) == [kind |-> "error", code |-> code, content |-> Absent, names |-> {}]
FileBody(content) == [kind |-> "file", code |-> 0, content |-> content, names |-> {}]
Listing(dir) ==
  [kind |-> "listing", code |-> 0, content |-> Absent,
   names |-> {f \in Files : dir[f] # Absent}]

Response(code, hdrs, body, version) ==
  [status |-> code, statusLine |-> (version # "HTTP/0.9"),
   headers |-> hdrs, body |-> body]

\* BaseHTTPRequestHandler.send_error: every error response ends its headers
\* through self.end_headers(), hence through the override.
send_error(version, method, code) ==
  LET h1 == send_header(send_response(version), version, <<"Connection", "close">>)
      h2 == send_header(h1, version, <<"Content-Type", "text/html;charset=utf-8">>)
  IN Response(code, end_headers(h2, version),
              IF method = "HEAD" THEN NoBody ELSE ErrorPage(code), version)

\* SimpleHTTPRequestHandler.translate_path: drops the query string.
RECURSIVE StripQuery(_)
StripQuery(path) ==
  IF path = <<>> \/ Head(path) = "?" THEN <<>>
  ELSE <<Head(path)>> \o StripQuery(Tail(path))

\* SimpleHTTPRequestHandler.send_head followed by the body copy of do_GET
\* (or no body, for do_HEAD), serving from directory contents dir.
ServeFile(dir, name, version, method, ims) ==
  IF name \notin Files \/ dir[name] = Absent
  THEN send_error(version, method, 404)
  ELSE IF ims
  THEN Response(304, end_headers(send_response(version), version), NoBody, version)
  ELSE LET h == send_header(send_header(send_response(version), version,
                                        <<"Content-type", name>>),
                            version, <<"Last-Modified", name>>)
       IN Response(200, end_headers(h, version),
                   IF method = "HEAD" THEN NoBody ELSE FileBody(dir[name]), version)

ServeDirectory(dir, version, method, ims) ==
  IF dir["index.html"] # Absent
  THEN ServeFile(dir, "index.html", version, method, ims)
  ELSE LET h == send_header(send_response(version), version,
                            <<"Content-type", "text/html; charset=utf-8">>)
       IN Response(200, end_headers(h, version),
                   IF method = "HEAD" THEN NoBody ELSE Listing(dir), version)

super_do_GET(dir, path, version, method, ims) ==
  LET p == StripQuery(path)
  IN IF p = RootPath THEN ServeDirectory(dir, version, method, ims)
     ELSE ServeFile(dir, p[2], version, method, ims)

\* The rewrite with the second comparison forgotten.
RewritePath_root_only(path) ==
  IF path = RootPath THEN TargetPath ELSE path

\* The rewrite comparing the path without its query string.
RewritePath_ignoring_query(path) ==
  IF StripQuery(path) = RootPath \/ StripQuery(path) = IndexPath
  THEN TargetPath ELSE path

\* MyHTTPRequestHandler.do_GET, first half: the rewrite of self.path.
RewritePath(path) ==
  IF path = RootPath \/ path = IndexPath THEN TargetPath ELSE path

do_GET(dir, path, version, ims) ==
  super_do_GET(dir, RewritePath(path), version, "GET", ims)

\* self.path of the handler instance once the request is handled.
PathAfter(req) ==
  IF req.kind = "request" /\ req.method = "GET" THEN RewritePath(req.path) ELSE req.path

\* BaseHTTPRequestHandler.handle_one_request on a fresh handler instance:
\* parse_request, then dispatch on do_<command>.
Handle(dir, req) ==
  IF req.kind = "malformed" THEN send_error(req.version, req.method, 400)
  ELSE IF req.method = "GET" THEN do_GET(dir, req.path, req.version, req.ims)
  ELSE IF req.method = "HEAD"
       THEN super_do_GET(dir, req.path, req.version, "HEAD", req.ims)
  ELSE send_error(req.version, req.method, 501)

\* ------------------------------------------------------------------- main
ExitMissingFile == 1
ExitNormal == 0
ExitTraceback == 1
ExitSigInt == 130

Url(host, port) == [scheme |-> "http://", host |-> host, port |-> port]
NoUrl == [scheme |-> "", host |-> "", port |-> 0]
Line(text, url) == [text |-> text, url |-> url]

ErrorLine == Line("Error: web-receiver.html not found in current directory", NoUrl)
StoppedLine == Line("Server stopped", NoUrl)

\* The seven print calls that follow the bind.
Announcement(ip) ==
  << Line("HiAudio Web Server Started!", NoUrl),
     Line("iPhone/iPad", Url(ip, PORT)),
     Line("Mac/PC", Url("localhost", PORT)),
     Line("Direct", Url("127.0.0.1", PORT)),
     Line("Server running on port", Url("", PORT)),
     Line("Press Ctrl+C to stop", NoUrl),
     Line("Access from iPhone Safari for best experience!", NoUrl) >>

BrowserOutcomes == {"opened", "not_opened", "raised"}

VARIABLES
  pc,             \* the statement main() is about to execute, or "exited"
  cwd,            \* the process's working directory
  fs,             \* the files of the script's directory
  local_ip,       \* main's local_ip
  probeOutcome,   \* "none" before the probe, then "ok" or "failed"
  sock,           \* the listening socket: "none", "bound" or "closed"
  stdout,         \* the lines printed so far
  exitStatus,     \* the process's exit status (-1 while it runs)
  exitKind,       \* why the process ended ("running" while it runs)
  browserOutcome, \* what webbrowser.open did ("none" before it)
  trace,          \* the startup steps executed so far, in order
  last,           \* the latest exchange since the directory last changed:
                  \* the request, the handler's self.path and the response
  first,          \* the first exchange since the directory last changed
  failedSince     \* an error response was sent after the first exchange

vars ==
  <<pc, cwd, fs, local_ip, probeOutcome, sock, stdout, exitStatus, exitKind,
    browserOutcome, trace, last, first, failedSince>>

NoRequest ==
  [kind |-> "none", method |-> "", path |-> <<>>, version |-> "", ims |-> FALSE]
NoResponse ==
  [status |-> 0, statusLine |-> FALSE, headers |-> <<>>, body |-> NoBody]
NoExchange == [req |-> NoRequest, path |-> <<>>, resp |-> NoResponse]

\* The directory relative paths resolve in.
Dir == IF cwd = "script_dir" THEN fs ELSE ElsewhereFs

Init ==
  /\ pc = "chdir"
  /\ cwd \in {"script_dir", "elsewhere"}
  /\ fs \in [Files -> {Absent} \cup Contents]
  /\ local_ip = ""
  /\ probeOutcome = "none"
  /\ sock = "none"
  /\ stdout = <<>>
  /\ exitStatus = -1
  /\ exitKind = "running"
  /\ browserOutcome = "none"
  /\ trace = <<>>
  /\ last = NoExchange
  /\ first = NoExchange
  /\ failedSince = FALSE

\* The process ends: the with statement (when entered) has closed the socket.
Exit(kind, status, out) ==
  /\ pc' = "exited"
  /\ exitKind' = kind
  /\ exitStatus' = status
  /\ stdout' = out
  /\ sock' = IF sock = "bound" THEN "closed" ELSE sock

\* main() without its os.chdir call.
ChangeDir_forgotten ==
  /\ pc = "chdir"
  /\ pc' = "check"
  /\ UNCHANGED <<cwd, fs, local_ip, probeOutcome, sock, stdout, exitStatus, exitKind,
                 browserOutcome, trace, last, first, failedSince>>

\* os.chdir(script_dir)
ChangeDir ==
  /\ pc = "chdir"
  /\ cwd' = "script_dir"
  /\ pc' = "check"
  /\ trace' = Append(trace, "chdir")
  /\ UNCHANGED <<fs, local_ip, probeOutcome, sock, stdout, exitStatus, exitKind,
                 browserOutcome, last, first, failedSince>>

\* The check with sys.exit(1) forgotten: the error is printed and main goes on.
CheckFile_no_exit ==
  /\ pc = "check"
  /\ trace' = Append(trace, "check")
  /\ stdout' = IF Dir[TargetFile] = Absent THEN Append(stdout, ErrorLine) ELSE stdout
  /\ pc' = "probe"
  /\ UNCHANGED <<cwd, fs, local_ip, probeOutcome, sock, exitStatus, exitKind,
                 browserOutcome, last, first, failedSince>>

\* if not os.path.exists('web-receiver.html'): print(...); sys.exit(1)
CheckFile ==
  /\ pc = "check"
  /\ trace' = Append(trace, "check")
  /\ IF Dir[TargetFile] = Absent
     THEN Exit("missing_file", ExitMissingFile, Append(stdout, ErrorLine))
     ELSE /\ pc' = "probe"
          /\ UNCHANGED <<sock, stdout, exitStatus, exitKind>>
  /\ UNCHANGED <<cwd, fs, local_ip, probeOutcome, browserOutcome, last, first, failedSince>>

\* local_ip = get_local_ip()
GetLocalIp ==
  /\ pc = "probe"
  /\ \E outcome \in ProbeOutcomes :
       /\ probeOutcome' = IF outcome = "ok" THEN "ok" ELSE "failed"
       /\ local_ip' = get_local_ip(outcome)
  /\ pc' = "bind"
  /\ trace' = Append(trace, "probe")
  /\ UNCHANGED <<cwd, fs, sock, stdout, exitStatus, exitKind, browserOutcome,
                 last, first, failedSince>>

\* with socketserver.TCPServer(("", PORT), MyHTTPRequestHandler) as httpd:
\* the constructor binds and listens, or raises OSError (port in use), which
\* nothing catches.
Bind ==
  /\ pc = "bind"
  /\ trace' = Append(trace, "bind")
  /\ \E portFree \in BOOLEAN :
       IF portFree
       THEN /\ sock' = "bound"
            /\ pc' = "announce"
            /\ UNCHANGED <<stdout, exitStatus, exitKind>>
       ELSE Exit("uncaught_exception", ExitTraceback, stdout)
  /\ UNCHANGED <<cwd, fs, local_ip, probeOutcome, browserOutcome, last, first, failedSince>>

\* the print calls between the with line and the try line
Announce ==
  /\ pc = "announce"
  /\ stdout' = stdout \o Announcement(local_ip)
  /\ pc' = "browser"
  /\ UNCHANGED <<cwd, fs, local_ip, probeOutcome, sock, exitStatus, exitKind,
                 browserOutcome, trace, last, first, failedSince>>

\* webbrowser.open(...), inside the try that catches KeyboardInterrupt only
OpenBrowser ==
  /\ pc = "browser"
  /\ trace' = Append(trace, "browser")
  /\ \E outcome \in BrowserOutcomes :
       /\ browserOutcome' = outcome
       /\ IF outcome = "raised"
          THEN Exit("uncaught_exception", ExitTraceback, stdout)
          ELSE /\ pc' = "serve"
               /\ UNCHANGED <<sock, stdout, exitStatus, exitKind>>
  /\ UNCHANGED <<cwd, fs, local_ip, probeOutcome, last, first, failedSince>>

\* httpd.serve_forever() is entered
ServeForever ==
  /\ pc = "serve"
  /\ pc' = "serving"
  /\ trace' = Append(trace, "serve")
  /\ UNCHANGED <<cwd, fs, local_ip, probeOutcome, sock, stdout, exitStatus, exitKind,
                 browserOutcome, last, first, failedSince>>

IsFailure(resp) == resp.status >= 400

\* A serve loop that an error response takes down.
AfterRequest_crashing(resp) == IF IsFailure(resp) THEN "crashed" ELSE "serving"

\* Where serve_forever stands once a request is handled: an exception in a
\* handler is caught by the server's handle_error, so the loop goes on.
AfterRequest(resp) == "serving"

\* serve_forever accepts one connection; a new handler instance parses the
\* request and answers it.
HandleRequest ==
  /\ pc = "serving"
  /\ \E req \in Requests :
       LET resp == Handle(Dir, req)
           exchange == [req |-> req, path |-> PathAfter(req), resp |-> resp]
       IN /\ last' = exchange
          /\ IF AfterRequest(resp) = "serving"
             THEN /\ pc' = "serving"
                  /\ UNCHANGED <<sock, stdout, exitStatus, exitKind>>
             ELSE Exit("uncaught_exception", ExitTraceback, stdout)
          /\ IF first = NoExchange
             THEN first' = exchange /\ failedSince' = FALSE
             ELSE first' = first /\ failedSince' = (failedSince \/ IsFailure(resp))
  /\ UNCHANGED <<cwd, fs, local_ip, probeOutcome, browserOutcome, trace>>

\* KeyboardInterrupt: caught only inside the try; anywhere else it unwinds
\* main() and the interpreter ends the process by SIGINT.
Interrupt ==
  /\ pc # "exited"
  /\ IF pc \in {"browser", "serve", "serving"}
     THEN Exit("graceful", ExitNormal, Append(stdout, StoppedLine))
     ELSE Exit("uncaught_interrupt", ExitSigInt, stdout)
  /\ UNCHANGED <<cwd, fs, local_ip, probeOutcome, browserOutcome, trace,
                 last, first, failedSince>>

\* Somebody else writes or removes a file of the script's directory.
FsChange ==
  /\ pc # "exited"
  /\ \E f \in Files, v \in {Absent} \cup Contents :
       /\ fs[f] # v
       /\ fs' = [fs EXCEPT ![f] = v]
  /\ last' = NoExchange
  /\ first' = NoExchange
  /\ failedSince' = FALSE
  /\ UNCHANGED <<pc, cwd, local_ip, probeOutcome, sock, stdout, exitStatus, exitKind,
                 browserOutcome, trace>>

Next ==
  \/ ChangeDir
  \/ CheckFile
  \/ GetLocalIp
  \/ Bind
  \/ Announce
  \/ OpenBrowser
  \/ ServeForever
  \/ HandleRequest
  \/ Interrupt
  \/ FsChange

Spec == Init /\ [][Next]_vars

\* ================================================================ claims
Range(seq) == {seq[i] : i \in DOMAIN seq}

\* The header name occurs exactly once in the response, with this value.
HasHeader(resp, header) ==
  /\ Cardinality({i \in DOMAIN resp.headers : resp.headers[i][1] = header[1]}) = 1
  /\ header \in Range(resp.headers)

HasCors(resp) == \A i \in DOMAIN CorsHeaders : HasHeader(resp, CorsHeaders[i])

Answered == last # NoExchange

IsOk(resp, body) == resp.status = 200 /\ resp.body = body

ToIndex == Answered /\ last.req.kind = "request" /\ last.req.path \in {RootPath, IndexPath}

\* C2 as stated: every request to / or /index.html, with web-receiver.html
\* present, is answered with status 200 and the contents of web-receiver.html.
C2_IndexServesTarget ==
  (ToIndex /\ fs[TargetFile] # Absent) => IsOk(last.resp, FileBody(fs[TargetFile]))

\* C2, amended: every GET request without an If-Modified-Since header the
\* file satisfies, to / or /index.html, with web-receiver.html present, is
\* answered with status 200 and the contents of web-receiver.html.
C2_PlainGetIndexServesTarget ==
  (/\ ToIndex
   /\ last.req.method = "GET"
   /\ ~last.req.ims
   /\ fs[TargetFile] # Absent) => IsOk(last.resp, FileBody(fs[TargetFile]))

\* GET /index.html answered with web-receiver.html while another index.html,
\* of different contents, lies in the directory.
C2_Witness ==
  /\ Answered
  /\ last.req.method = "GET"
  /\ last.req.version = "HTTP/1.1"
  /\ ~last.req.ims
  /\ last.req.path = IndexPath
  /\ fs[TargetFile] # Absent
  /\ fs["index.html"] \notin {Absent, fs[TargetFile]}
  /\ IsOk(last.resp, FileBody(fs[TargetFile]))

\* ---- C3
\* C3: when the existence check finds no web-receiver.html in the script's
\* directory, the process prints the error and exits with status 1, having
\* bound no socket, run no probe and opened no browser; and no socket is bound
\* afterwards.
C3_MissingFileExitsBeforeBind ==
  [][ /\ (pc = "check" /\ fs[TargetFile] = Absent /\ pc' # "check"
            /\ exitKind' # "uncaught_interrupt")
          => /\ pc' = "exited"
             /\ exitKind' = "missing_file"
             /\ exitStatus' = 1
             /\ stdout' = <<ErrorLine>>
             /\ sock' = "none"
             /\ probeOutcome' = "none"
             /\ browserOutcome' = "none"
             /\ trace' = <<"chdir", "check">>
      /\ exitKind = "missing_file"
          => (sock' = "none" /\ pc' = "exited" /\ exitStatus' = 1) ]_vars

C3_Witness ==
  /\ pc = "exited"
  /\ exitKind = "missing_file"
  /\ exitStatus = 1
  /\ sock = "none"
  /\ fs[TargetFile] = Absent

\* ---- C4
ProbeFailed == probeOutcome = "failed"

\* C4: when any step of the probe fails, get_local_ip returns "localhost", the
\* LAN URL printed is http://localhost:8082, and main goes on to the bind: a
\* process that ended without attempting the bind was interrupted.
C4_ProbeFailureFallsBack ==
  ProbeFailed =>
    /\ local_ip = "localhost"
    /\ pc # "probe"
    /\ (pc \in {"browser", "serve", "serving"}
          => stdout[2] = Line("iPhone/iPad", Url("localhost", 8082)))
    /\ (pc = "exited" /\ "bind" \notin Range(trace)) => exitKind = "uncaught_interrupt"

\* The server serves after a probe that failed.
C4_Witness ==
  /\ ProbeFailed
  /\ local_ip = "localhost"
  /\ pc = "serving"
  /\ sock = "bound"
  /\ stdout[2].url = Url("localhost", 8082)

\* ---- C5
\* C5 as stated: after a failure of the browser-open step, by a false return
\* or by an error raised, the process is in (or about to enter) the serving
\* state, unless the operator has stopped it since.
C5_BrowserFailureNeverAborts ==
  browserOutcome \in {"not_opened", "raised"}
    => (pc \in {"serve", "serving"} \/ exitKind = "graceful")

\* ---- C6
Interrupted == exitKind \in {"graceful", "uncaught_interrupt"}

\* C6 as stated: an operator interrupt at any point after the listener is
\* bound prints the shutdown message, closes the listening socket and ends
\* the process with status 0.
C6_InterruptAfterBindIsGraceful ==
  (Interrupted /\ sock # "none")
    => /\ exitKind = "graceful"
       /\ exitStatus = 0
       /\ stdout # <<>> /\ stdout[Len(stdout)] = StoppedLine
       /\ sock = "closed"

\* ---- C7
\* C7 as stated, for every end of the process that is not an operator
\* interrupt (the interrupts are C6's): it is the early exit with status 1 on
\* a missing web-receiver.html; a bind failure, a browser-open error or a
\* failing request ends nothing.
C7_OnlyMissingFileEndsTheProcess ==
  (pc = "exited" /\ ~Interrupted)
    => (exitKind = "missing_file" /\ exitStatus = 1)

StartupOrder == <<"chdir", "check", "probe", "bind", "browser", "serve">>

IsPrefix(s, t) == Len(s) <= Len(t) /\ \A i \in DOMAIN s : s[i] = t[i]

Phase(p) ==
  IF p = "serving" THEN 1 ELSE IF p = "exited" THEN 2 ELSE 0

\* C9: the startup steps run once each, in the order chdir, check, probe,
\* bind, browser, serve; a serving process has run them all, in the script's
\* directory and with the listener bound; whatever the probe and the browser
\* did, the statements after the bind run with the socket bound; and the
\* lifecycle never moves backwards.
C9_StartupOrder ==
  /\ [](IsPrefix(trace, StartupOrder))
  /\ [](pc = "serving" => (trace = StartupOrder /\ cwd = "script_dir"))
  /\ [](pc \in {"announce", "browser", "serve", "serving"} => sock = "bound")
  /\ [][Phase(pc') >= Phase(pc)]_vars

\* Serving after a failed probe and a browser that did not open.
C9_Witness ==
  /\ pc = "serving"
  /\ trace = StartupOrder
  /\ ProbeFailed
  /\ browserOutcome = "not_opened"

\* ---- C10
IsGet == Answered /\ last.req.kind = "request" /\ last.req.method = "GET"

====
